---- MODULE Spec2Model ----
(***************************************************************************)
(* Face-authentication clients of the Krish AI assistant.                  *)
(*                                                                         *)
(* Three clients are modelled, each from its source:                       *)
(*   - AuthProvider (context/AuthContext) with AuthScreen, the React       *)
(*     Native login screen (specification Spec);                           *)
(*   - FaceRegistrationScreen with the consent switches of                 *)
(*     PrivacyDashboardScreen (specification SpecReg);                     *)
(*   - KrishAI, the web client (specification SpecWeb).                    *)
(* The Matcher (the /api/face/register and /api/face/verify endpoints),    *)
(* AsyncStorage, the camera and the user are the environment: their        *)
(* answers are drawn from small sets.  Every await of a handler is a point *)
(* where other handlers may run, so a handler is one action per segment    *)
(* between awaits.                                                         *)
(***************************************************************************)
EXTENDS Integers, FiniteSets, Sequences, TLC

\* ---------------------------------------------------------------- bounds
\* Largest number of verify requests one behaviour sends.
MaxCalls == 4
\* Largest number of register requests one enrollment behaviour sends.
MaxRegCalls == 2
\* Largest number of requests the web client has in flight at once.
MaxInFlight == 2

\* ------------------------------------------------------- program constants
\* FACE_VERIFICATION.maxRetries (declared, never read by any handler).
maxRetries == 3

\* ------------------------------------------------------------ value sets
Null == "null"
Undefined == "undefined"
Tokens == {"t1", "t2"}
\* userId values: a stored id, and the '' that verifyFace passes to login
\* when state.userId is null.
EmptyId == ""
UserIds == {"u1"}

\* What the Matcher endpoint can answer to one request:
\*   transport : fetch rejects or response.json() throws
\*   nomatch   : {success: false, error}
\*   notoken   : {success: true} without access_token
\*   ok        : {success: true, access_token}
RespKinds == {"transport", "nomatch", "notoken", "ok"}

NoOutcome == <<>>

VARIABLES
  \* AuthProvider
  state,          \* AuthState {isAuthenticated, token, userId, isLoading}
  storage,        \* AsyncStorage entries AUTH_TOKEN_KEY, USER_ID_KEY
  loadPc,         \* position of loadAuthState: "start", "verifying", "done"
  loadRead,       \* the [token, userId] loadAuthState read from storage
  \* AuthScreen
  authIsRegistering, \* AuthScreen.isRegistering (register / verify mode)
  isProcessing,   \* AuthScreen.isProcessing
  authPc,         \* "idle", "capturing", "awaitRegister", "awaitVerify",
                  \* "awaitLogin" (verifyFace awaiting login)
  authOp,         \* handler running: "none", "register", "verify"
  reqUserId,      \* state.userId seen by the closure of the running handler
  lastAlert,      \* last Alert.alert of AuthScreen
  verifyCalls,    \* requests sent to /api/face/verify
  failedAttempts, \* verify requests answered with a definitive no-match
  lastResp,       \* answer kind of the last verify request; "none" before
  outcomeSeen,    \* per answer kind, what the caller was told
  expired,        \* the lifetime of the token last issued has elapsed
  lastLogin,      \* login call of the running handler: "none", "done", "failed"
  lastReturn,     \* how the last registerFace / verifyFace call ended:
                  \* "none", "true", "false", "undefined", "threw"
  lastStore,      \* the last login / logout call: whether a storage
                  \* operation failed, whether the call threw, whether the
                  \* state was left as it was (StoreOff: not recorded)
  \* App
  appIsLoading,       \* App.isLoading
  appIsAuthenticated, \* App.isAuthenticated
  \* HomeScreen
  homeIsListening     \* HomeScreen.isListening

providerVars == <<state, storage, loadPc, loadRead>>
screenVars == <<authIsRegistering, isProcessing, authPc, authOp, reqUserId,
                lastAlert, verifyCalls, failedAttempts, lastResp,
                outcomeSeen>>
sessionVars == <<expired, lastLogin, lastReturn>>
appVars == <<appIsLoading, appIsAuthenticated>>
authVars == <<providerVars, screenVars, sessionVars, lastStore, appVars,
              homeIsListening>>

\* ------------------------------------------------------------ AuthProvider
initialState ==
  [isAuthenticated |-> FALSE, token |-> Null, userId |-> Null,
   isLoading |-> TRUE]

\* JavaScript truthiness of a stored string or null.
Truthy(v) == v # Null /\ v # Undefined /\ v # EmptyId

\* Persisted entries left by an earlier run of the app.
InitStorages ==
  { [token |-> Null, userId |-> Null], [token |-> "t1", userId |-> "u1"] }

\* loadAuthState up to its first state change: the two getItem calls; with
\* no usable pair (or a storage error) it resets the state at once.
LoadRead ==
  /\ loadPc = "start"
  /\ \E readOk \in BOOLEAN :
       IF readOk /\ Truthy(storage.token) /\ Truthy(storage.userId)
       THEN /\ loadPc' = "verifying"
            /\ loadRead' = storage
            /\ UNCHANGED state
       ELSE /\ loadPc' = "done"
            /\ loadRead' = [token |-> Null, userId |-> Null]
            /\ state' = [initialState EXCEPT !.isLoading = FALSE]
  /\ UNCHANGED <<storage, screenVars, sessionVars>>
  /\ UNCHANGED <<lastStore, appVars, homeIsListening>>

\* Variant of LoadVerified: the rejection path sets initialState as it is,
\* isLoading included.
LoadVerifiedStaysLoading ==
  /\ loadPc = "verifying"
  /\ \E respOk \in BOOLEAN :
       /\ expired => ~respOk
       /\ state' = IF respOk
                   THEN [isAuthenticated |-> TRUE, token |-> loadRead.token,
                         userId |-> loadRead.userId, isLoading |-> FALSE]
                   ELSE initialState
  /\ loadPc' = "done"
  /\ UNCHANGED <<storage, loadRead, screenVars, sessionVars>>
  /\ UNCHANGED <<lastStore, appVars, homeIsListening>>

\* loadAuthState after GET /verify-token answered (respOk: response.ok;
\* a rejected fetch takes the catch branch, same state as not ok).  The
\* server does not answer ok for a token whose lifetime has elapsed.
LoadVerified ==
  /\ loadPc = "verifying"
  /\ \E respOk \in BOOLEAN :
       /\ expired => ~respOk
       /\ state' = IF respOk
                   THEN [isAuthenticated |-> TRUE, token |-> loadRead.token,
                         userId |-> loadRead.userId, isLoading |-> FALSE]
                   ELSE [initialState EXCEPT !.isLoading = FALSE]
  /\ loadPc' = "done"
  /\ UNCHANGED <<storage, loadRead, screenVars, sessionVars>>
  /\ UNCHANGED <<lastStore, appVars, homeIsListening>>

\* The two setItem calls of login; each may be rejected by the storage.
loginStorage(st, token, userId, okT, okU) ==
  [token |-> IF okT THEN token ELSE st.token,
   userId |-> IF okU THEN userId ELSE st.userId]

\* Variant of loginState: the token is set, the flag is not.
loginStateTokenOnly(token, userId) ==
  [isAuthenticated |-> FALSE, token |-> token, userId |-> userId,
   isLoading |-> FALSE]

\* The state login sets once both writes succeeded.
loginState(token, userId) ==
  [isAuthenticated |-> TRUE, token |-> token, userId |-> userId,
   isLoading |-> FALSE]

\* Variant of loginThrows: a rejected write is swallowed.
loginThrowsNever(okT, okU) == FALSE

\* Whether login throws: its catch block rethrows when a setItem is rejected.
loginThrows(okT, okU) == ~(okT /\ okU)

\* Whether logout throws: its catch block rethrows when a removeItem is
\* rejected.
logoutThrows(okT, okU) == ~(okT /\ okU)

\* What lastStore holds before any login or logout call, and where the
\* calls are not recorded.
NoStore == [op |-> "none", failed |-> FALSE, threw |-> FALSE, kept |-> TRUE]
StoreOff == [op |-> "off", failed |-> FALSE, threw |-> FALSE, kept |-> TRUE]

\* The record of a login or logout call.
storeRecord(last, op, failed, threw, kept) ==
  IF last = StoreOff THEN StoreOff
  ELSE [op |-> op, failed |-> failed, threw |-> threw, kept |-> kept]

\* The two removeItem calls of logout.
logoutStorage(st, okT, okU) ==
  [token |-> IF okT THEN Null ELSE st.token,
   userId |-> IF okU THEN Null ELSE st.userId]

\* Variant of logoutState: the flag is cleared, token and userId are kept.
logoutStateFlagOnly(st, removed) ==
  IF removed
  THEN [st EXCEPT !.isAuthenticated = FALSE, !.isLoading = FALSE]
  ELSE st

\* The state after logout: cleared once both removals succeeded, untouched
\* otherwise.
logoutState(st, removed) ==
  IF removed
  THEN [isAuthenticated |-> FALSE, token |-> Null, userId |-> Null,
        isLoading |-> FALSE]
  ELSE st

\* logout(): clears the storage, then the state; throws (state untouched)
\* when a removeItem is rejected.
Logout ==
  /\ \E okT, okU \in BOOLEAN :
       /\ storage' = logoutStorage(storage, okT, okU)
       /\ state' = logoutState(state, okT /\ okU)
       /\ lastStore' = storeRecord(lastStore, "logout", ~(okT /\ okU),
                                   logoutThrows(okT, okU),
                                   logoutState(state, okT /\ okU) = state)
  /\ UNCHANGED <<loadPc, loadRead, screenVars, sessionVars>>
  /\ UNCHANGED <<appVars, homeIsListening>>

\* Answers to the register request: the kinds of RespKinds, and a body that
\* carries no success field (an error body).
RegisterResps == RespKinds \cup {"nofield"}

\* Whether registerFace's caller takes the success branch for an answer:
\* the truthiness of result.success, or of the false from the catch block.
registerFaceReturn(resp) == resp \in {"notoken", "ok"}

\* The value registerFace returns: result.success as the body carries it
\* (undefined when it carries none), or false from the catch block.
registerFaceValue(resp) ==
  IF resp \in {"notoken", "ok"} THEN "true"
  ELSE IF resp = "nofield" THEN "undefined"
  ELSE "false"

\* Whether registerFace throws: its try block holds the whole body.
registerFaceThrows(resp) == FALSE

\* Whether verifyFace goes on to login for an answer:
\* result.success && result.access_token.
verifyFaceAccepts(resp) == resp = "ok"

\* Variant of verifyFaceReturn: true whenever the answer was accepted.
verifyFaceReturnNoLogin(resp, loginOk) == verifyFaceAccepts(resp)

\* What verifyFace returns: true only after login succeeded.
verifyFaceReturn(resp, loginOk) == verifyFaceAccepts(resp) /\ loginOk

\* Variant of verifyFaceThrows: the error login rethrows escapes.
verifyFaceThrowsOnLogin(resp, loginOk) == verifyFaceAccepts(resp) /\ ~loginOk

\* Whether verifyFace throws: its try block holds the await of login too,
\* so the error login rethrows is caught and false is returned.
verifyFaceThrows(resp, loginOk) == FALSE

\* A returned boolean as recorded in lastReturn.
returned(b) == IF b THEN "true" ELSE "false"

\* -------------------------------------------------------------------- App
\* AsyncStorage.getItem: the entry stored under a key, null when there is
\* none.  The fields token and userId of storage are the entries under
\* AUTH_TOKEN_KEY and USER_ID_KEY; no other key is ever written.
getItem(st, key) == IF key \in DOMAIN st THEN st[key] ELSE Null

\* initializeApp: reads the entry under the literal key 'authToken' and,
\* if there is one, sets isAuthenticated from GET /verify-token; finally
\* clears isLoading.  The AuthProvider and the screens are rendered only
\* once isLoading is false.
InitializeApp ==
  /\ appIsLoading
  /\ LET authTokenRead == getItem(storage, "authToken") IN
     IF Truthy(authTokenRead)
     THEN \E respOk \in BOOLEAN :
            appIsAuthenticated' = (respOk /\ ~expired)
     ELSE UNCHANGED appIsAuthenticated
  /\ appIsLoading' = FALSE
  /\ UNCHANGED <<providerVars, screenVars, sessionVars, lastStore,
                 homeIsListening>>

\* ------------------------------------------------------------- HomeScreen
\* Press of the mic button, disabled while isAuthenticated is false:
\* startListening or stopListening (Voice.start / Voice.stop, answered by
\* onSpeechStart / onSpeechEnd).
MicPressed ==
  /\ ~appIsLoading
  /\ state.isAuthenticated
  /\ homeIsListening' = ~homeIsListening
  /\ UNCHANGED <<providerVars, screenVars, sessionVars, lastStore, appVars>>

\* Voice.onSpeechEnd / onSpeechError.
SpeechEnded ==
  /\ homeIsListening
  /\ homeIsListening' = FALSE
  /\ UNCHANGED <<providerVars, screenVars, sessionVars, lastStore, appVars>>

NextHome ==
  \/ MicPressed
  \/ SpeechEnded

\* ------------------------------------------------------------- AuthScreen
\* The mode switch button; rendered only while no handler runs.
ToggleMode ==
  /\ ~isProcessing
  /\ authIsRegistering' = ~authIsRegistering
  /\ UNCHANGED <<providerVars, isProcessing, authPc, authOp, reqUserId,
                 lastAlert, verifyCalls, failedAttempts, lastResp,
                 outcomeSeen, sessionVars>>
  /\ UNCHANGED <<lastStore, appVars, homeIsListening>>

\* Press of the Register Face / Verify Face button: the handler
\* (handleRegistration or handleVerification) sets isProcessing and awaits
\* captureImage.  The button is rendered only while isProcessing is false;
\* no attempt counter is consulted.
PressCapture ==
  /\ ~isProcessing
  /\ authPc = "idle"
  /\ authIsRegistering \/ verifyCalls < MaxCalls
  /\ isProcessing' = TRUE
  /\ authOp' = IF authIsRegistering THEN "register" ELSE "verify"
  /\ authPc' = "capturing"
  /\ reqUserId' = state.userId
  /\ lastLogin' = "none"
  /\ UNCHANGED <<providerVars, authIsRegistering, lastAlert, verifyCalls,
                 failedAttempts, lastResp, outcomeSeen, expired, lastReturn>>
  /\ UNCHANGED <<lastStore, appVars, homeIsListening>>

\* Variant of processingAfter: the flag is cleared on the success path only.
processingAfterNoFinally(success) == ~success

\* isProcessing once a handler has ended: the finally block clears it on
\* every path.
processingAfter(success) == FALSE

\* The alert a handler raises for the value the provider call returned
\* ("none": handleVerification raises nothing on success).
alertAfter(op, success) ==
  IF op = "register"
  THEN IF success THEN "FACE_REGISTERED" ELSE "FACE_REGISTRATION"
  ELSE IF success THEN "none" ELSE "FACE_VERIFICATION"

\* captureImage returned null (no camera ref, or takePictureAsync threw):
\* the handler alerts and ends without a request.
CaptureFailed ==
  /\ authPc = "capturing"
  /\ lastAlert' = alertAfter(authOp, FALSE)
  /\ isProcessing' = processingAfter(FALSE)
  /\ authPc' = "idle"
  /\ authOp' = "none"
  /\ UNCHANGED <<providerVars, authIsRegistering, reqUserId, verifyCalls,
                 failedAttempts, lastResp, outcomeSeen, sessionVars>>
  /\ UNCHANGED <<lastStore, appVars, homeIsListening>>

\* captureImage returned a picture: the handler calls registerFace or
\* verifyFace, which sends the request and awaits the answer.
CaptureDone ==
  /\ authPc = "capturing"
  /\ authPc' = IF authOp = "register" THEN "awaitRegister" ELSE "awaitVerify"
  /\ verifyCalls' = IF authOp = "verify" THEN verifyCalls + 1 ELSE verifyCalls
  /\ UNCHANGED <<providerVars, authIsRegistering, isProcessing, authOp,
                 reqUserId, lastAlert, failedAttempts, lastResp, outcomeSeen,
                 sessionVars>>
  /\ UNCHANGED <<lastStore, appVars, homeIsListening>>

\* The answer to the register request reaches registerFace, and
\* handleRegistration runs to its end.
RegisterAnswered ==
  /\ authPc = "awaitRegister"
  /\ \E resp \in RegisterResps :
       LET threw   == registerFaceThrows(resp)
           success == ~threw /\ registerFaceReturn(resp)
       IN
       /\ lastAlert' = alertAfter("register", success)
       /\ authIsRegistering' = IF success THEN FALSE ELSE authIsRegistering
       /\ isProcessing' = processingAfter(success)
       /\ lastReturn' = IF threw THEN "threw" ELSE registerFaceValue(resp)
  /\ authPc' = "idle"
  /\ authOp' = "none"
  /\ UNCHANGED <<providerVars, reqUserId, verifyCalls, failedAttempts,
                 lastResp, outcomeSeen, expired, lastLogin>>
  /\ UNCHANGED <<lastStore, appVars, homeIsListening>>

\* A definitive no-match is the only answer that is a failed attempt.
isFailedAttempt(resp) == resp = "nomatch"

\* The answer to the verify request reaches verifyFace.  On
\* success && access_token it calls login and awaits it; on any other answer
\* it returns false and handleVerification runs to its end.
VerifyAnswered ==
  /\ authPc = "awaitVerify"
  /\ \E resp \in RespKinds :
       LET success == verifyFaceReturn(resp, FALSE)
           alert   == alertAfter("verify", success)
       IN
       /\ lastResp' = resp
       /\ failedAttempts' = IF isFailedAttempt(resp)
                            THEN failedAttempts + 1 ELSE failedAttempts
       /\ outcomeSeen' = IF resp \in DOMAIN outcomeSeen
                         THEN [outcomeSeen EXCEPT ![resp] = <<success, alert>>]
                         ELSE outcomeSeen
       /\ IF verifyFaceAccepts(resp)
          THEN /\ authPc' = "awaitLogin"
               /\ UNCHANGED <<authOp, isProcessing, lastAlert, lastReturn>>
          ELSE /\ authPc' = "idle"
               /\ authOp' = "none"
               /\ isProcessing' = processingAfter(success)
               /\ lastAlert' = alert
               /\ lastReturn' = IF verifyFaceThrows(resp, FALSE)
                                THEN "threw" ELSE returned(success)
  /\ UNCHANGED <<providerVars, authIsRegistering, reqUserId, verifyCalls,
                 expired, lastLogin>>
  /\ UNCHANGED <<lastStore, appVars, homeIsListening>>

\* login called by verifyFace ends: the two setItem calls, then the state
\* (only when both writes succeeded; else login rethrows), and
\* handleVerification runs to its end.  The token is the one of the answer,
\* newly issued; the userId is the state.userId of verifyFace's closure.
LoginDone ==
  /\ authPc = "awaitLogin"
  /\ \E tok \in Tokens, okT, okU \in BOOLEAN :
       LET uid     == IF Truthy(reqUserId) THEN reqUserId ELSE EmptyId
           loginOk == ~loginThrows(okT, okU)
           threw   == verifyFaceThrows(lastResp, loginOk)
           success == ~threw /\ verifyFaceReturn(lastResp, loginOk)
           alert   == alertAfter("verify", success)
       IN
       /\ storage' = loginStorage(storage, tok, uid, okT, okU)
       /\ state' = IF loginOk THEN loginState(tok, uid) ELSE state
       /\ lastStore' = storeRecord(lastStore, "login", ~(okT /\ okU),
                                   loginThrows(okT, okU),
                                   loginOk => loginState(tok, uid) = state)
       /\ expired' = IF loginOk THEN FALSE ELSE expired
       /\ lastLogin' = IF loginOk THEN "done" ELSE "failed"
       /\ lastReturn' = IF threw THEN "threw"
                        ELSE returned(verifyFaceReturn(lastResp, loginOk))
       /\ lastAlert' = IF alert = "none" THEN lastAlert ELSE alert
       /\ isProcessing' = processingAfter(success)
  /\ authPc' = "idle"
  /\ authOp' = "none"
  /\ UNCHANGED <<loadPc, loadRead, authIsRegistering, reqUserId, verifyCalls,
                 failedAttempts, lastResp, outcomeSeen>>
  /\ UNCHANGED <<appVars, homeIsListening>>

\* The lifetime of the token the client holds elapses (expiresAt of the
\* Token passes).
TokenExpires ==
  /\ ~expired
  /\ state.token \in Tokens \/ storage.token \in Tokens
  /\ expired' = TRUE
  /\ UNCHANGED <<providerVars, screenVars, lastLogin, lastReturn>>
  /\ UNCHANGED <<lastStore, appVars, homeIsListening>>

InitAuth ==
  /\ state = initialState
  /\ storage \in InitStorages
  /\ loadPc = "start"
  /\ loadRead = [token |-> Null, userId |-> Null]
  /\ authIsRegistering = FALSE
  /\ isProcessing = FALSE
  /\ authPc = "idle"
  /\ authOp = "none"
  /\ reqUserId = Null
  /\ lastAlert = "none"
  /\ verifyCalls = 0
  /\ failedAttempts = 0
  /\ lastResp = "none"
  /\ outcomeSeen = [k \in {"transport", "nomatch"} |-> NoOutcome]
  /\ expired = FALSE
  /\ lastLogin = "none"
  /\ lastReturn = "none"
  /\ lastStore \in {StoreOff, NoStore}
  /\ appIsLoading = TRUE
  /\ appIsAuthenticated = FALSE
  /\ homeIsListening = FALSE

\* The provider and its screens exist once the App has rendered them.
NextProvider ==
  \/ LoadRead
  \/ LoadVerified
  \/ Logout
  \/ ToggleMode
  \/ PressCapture
  \/ CaptureFailed
  \/ CaptureDone
  \/ RegisterAnswered
  \/ VerifyAnswered
  \/ LoginDone

NextAuth ==
  \/ InitializeApp
  \/ ~appIsLoading /\ NextProvider
  \/ TokenExpires

\* ------------------------------------------------- FaceRegistrationScreen
VARIABLES
  cameraRef,          \* cameraRef.current is set (Camera mounted)
  regIsRegistering,   \* FaceRegistrationScreen.isRegistering
  registrationSuccess,
  isFaceCentered,
  registrationStep,   \* 0..3
  errorMessage,       \* Null or "message"
  qualityScore,       \* in tenths: 0, 3, 6, 7, 10
  checkedScore,       \* score of the last checkFaceQuality call (-1: none)
  qualityPass,        \* value that call returned
  regPc,              \* "idle", "capturing", "awaitRegister"
  regAlert,           \* open Alert: "none", "success", "error"
  registerCalls,      \* requests sent to /api/face/register
  capturedScore,      \* qualityScore when takePicture was pressed (-1: none)
  submittedScore,     \* capturedScore of the last request sent (-1: none)
  consentAtStart,     \* the store's facial_data flag when takePicture began
  lastFace,           \* face of the last detection event (NoFace: none);
                      \* FaceOff where the faces are not recorded
  checkedCentered,    \* isFaceCentered as the last checkFaceQuality read it
  frameSize,          \* size of the camera frame
  \* PrivacyDashboardScreen and the consent store behind it
  consents,           \* the store's facial_data: "absent", "granted", "denied"
  settings,           \* the screen's copy; Null until loaded
  saving,             \* PrivacyDashboardScreen.saving
  pendingConsent      \* value of the PUT in flight; Null when none

regVars == <<cameraRef, regIsRegistering, registrationSuccess, isFaceCentered,
             registrationStep, errorMessage, qualityScore, checkedScore,
             qualityPass, regPc, regAlert, registerCalls, capturedScore,
             submittedScore, consentAtStart>>
consentVars == <<consents, settings, saving, pendingConsent>>
scoreVars == <<lastFace, checkedCentered, frameSize>>

\* checkFaceQuality: the literals, scores counted in tenths.  The sums the
\* code forms (0.4 + 0.3, 0.3 + 0.3, 0.4 + 0.3 + 0.3) are the doubles 0.7,
\* 0.6 and 1.0, so tenths compare as the doubles do.
minSize == 100
maxSize == 240
sizeWeight == 4
centerWeight == 3
baseWeight == 3
passThreshold == 7

\* Face boxes the detector reports: origin and size.
FaceXs == {0, 110, 120}
FaceYs == {0, 210, 220}
FaceWidths == {0, 100, 101, 239, 240}
FaceHeights == {0, 101, 240}
Faces == [x : FaceXs, y : FaceYs, width : FaceWidths, height : FaceHeights]
\* Records that are no face box: no face in the event, and not recorded.
NoFace == [x |-> -1, y |-> -1, width |-> -1, height |-> -1]
FaceOff == [x |-> -2, y |-> -2, width |-> -2, height |-> -2]

\* Camera frames: the frame in which the rectangle of handleFaceDetected is
\* central (its middle is the middle of the literals), and one twice as
\* large.  No handler reads the frame size.
RefFrame == [width |-> 160 + 240, height |-> 260 + 340]
FrameSizes == {RefFrame, [width |-> 2 * (160 + 240), height |-> 2 * (260 + 340)]}

\* Variant of faceCentered: only the horizontal position is tested.
faceCenteredXOnly(face) ==
  /\ 2 * face.x + face.width > 2 * 160
  /\ 2 * face.x + face.width < 2 * 240

\* handleFaceDetected: centerX = x + width / 2 in (160, 240) and
\* centerY = y + height / 2 in (260, 340); compared doubled, so that
\* halves stay integers.
faceCentered(face) ==
  /\ 2 * face.x + face.width > 2 * 160
  /\ 2 * face.x + face.width < 2 * 240
  /\ 2 * face.y + face.height > 2 * 260
  /\ 2 * face.y + face.height < 2 * 340

\* Variant of sizeInRange: the bounds themselves are in range.
sizeInRangeInclusive(face) ==
  /\ face.width >= minSize /\ face.width <= maxSize
  /\ face.height >= minSize /\ face.height <= maxSize

\* checkFaceQuality: the size term.
sizeInRange(face) ==
  /\ face.width > minSize /\ face.width < maxSize
  /\ face.height > minSize /\ face.height < maxSize

\* Variant of faceScore: the size term is earned by every box.
faceScoreAnySize(face, centered) ==
  sizeWeight
  + (IF centered THEN centerWeight ELSE 0)
  + baseWeight

\* checkFaceQuality: the score it stores, given the isFaceCentered of its
\* closure.
faceScore(face, centered) ==
  (IF sizeInRange(face) THEN sizeWeight ELSE 0)
  + (IF centered THEN centerWeight ELSE 0)
  + baseWeight

\* Variant of qualityPasses: the threshold itself passes.
qualityPassesAtLeast(score) == score >= passThreshold

\* checkFaceQuality: the value it returns.
qualityPasses(score) == score > passThreshold

\* resetRegistration.
resetRegistration ==
  /\ regIsRegistering' = FALSE
  /\ registrationSuccess' = FALSE
  /\ registrationStep' = 0
  /\ errorMessage' = Null
  /\ qualityScore' = 0

\* The Camera is rendered once the permission is granted.
CameraMounted ==
  /\ ~cameraRef
  /\ cameraRef' = TRUE
  /\ UNCHANGED <<regIsRegistering, registrationSuccess, isFaceCentered,
                 registrationStep, errorMessage, qualityScore, checkedScore,
                 qualityPass, regPc, regAlert, registerCalls, capturedScore,
                 submittedScore, consentAtStart, consentVars,
                 scoreVars>>

\* handleFaceDetected with at least one face: isFaceCentered is set from
\* the face, and checkFaceQuality scores the face with the isFaceCentered
\* of the render the callback was created in, the value before this event.
FaceDetected ==
  /\ cameraRef
  /\ \E face \in Faces :
       /\ isFaceCentered' = faceCentered(face)
       /\ qualityScore' = faceScore(face, isFaceCentered)
       /\ checkedScore' = faceScore(face, isFaceCentered)
       /\ qualityPass' = qualityPasses(faceScore(face, isFaceCentered))
       /\ lastFace' = IF lastFace = FaceOff THEN FaceOff ELSE face
  /\ checkedCentered' = isFaceCentered
  /\ UNCHANGED <<cameraRef, regIsRegistering, registrationSuccess,
                 registrationStep, errorMessage, regPc, regAlert,
                 registerCalls, capturedScore, submittedScore,
                 consentAtStart, consentVars, frameSize>>

\* Variant of NoFaceDetected: losing the face resets the registration.
NoFaceDetectedResets ==
  /\ cameraRef
  /\ isFaceCentered' = FALSE
  /\ resetRegistration
  /\ UNCHANGED <<cameraRef, checkedScore, qualityPass, regPc, regAlert,
                 registerCalls, capturedScore, submittedScore,
                 consentAtStart, consentVars,
                 scoreVars>>

\* handleFaceDetected with no face.
NoFaceDetected ==
  /\ cameraRef
  /\ isFaceCentered' = FALSE
  /\ qualityScore' = 0
  /\ lastFace' = IF lastFace = FaceOff THEN FaceOff ELSE NoFace
  /\ UNCHANGED <<cameraRef, regIsRegistering, registrationSuccess,
                 registrationStep, errorMessage, checkedScore, qualityPass,
                 regPc, regAlert, registerCalls, capturedScore,
                 submittedScore, consentAtStart, consentVars,
                 checkedCentered, frameSize>>

\* What takePicture requires before it captures.
takePictureAllowed == cameraRef /\ isFaceCentered

\* Press of the Register Face button (enabled while not isRegistering and
\* isFaceCentered; an open Alert takes the touches): takePicture up to the
\* await of takePictureAsync.
TakePicture ==
  /\ regAlert = "none"
  /\ ~regIsRegistering
  /\ regPc = "idle"
  /\ takePictureAllowed
  /\ registerCalls < MaxRegCalls
  /\ regIsRegistering' = TRUE
  /\ registrationStep' = 1
  /\ errorMessage' = Null
  /\ regPc' = "capturing"
  /\ capturedScore' = qualityScore
  /\ consentAtStart' = consents
  /\ UNCHANGED <<cameraRef, registrationSuccess, isFaceCentered,
                 qualityScore, checkedScore, qualityPass, regAlert,
                 registerCalls, submittedScore, consentVars,
                 scoreVars>>

\* Variant of registeringAfter: the flag is cleared on the success path
\* only.
registeringAfterNoFinally(success) == ~success

\* isRegistering once takePicture has ended: the finally block clears it on
\* every path.
registeringAfter(success) == FALSE

\* takePictureAsync threw: the catch block reports, finally clears
\* isRegistering.
PictureFailed ==
  /\ regPc = "capturing"
  /\ errorMessage' = "message"
  /\ regAlert' = "error"
  /\ regIsRegistering' = registeringAfter(FALSE)
  /\ regPc' = "idle"
  /\ UNCHANGED <<cameraRef, registrationSuccess, isFaceCentered,
                 registrationStep, qualityScore, checkedScore, qualityPass,
                 registerCalls, capturedScore, submittedScore,
                 consentAtStart, consentVars,
                 scoreVars>>

\* takePictureAsync returned the photo: step 2, and registerFace sends the
\* request.
PictureTaken ==
  /\ regPc = "capturing"
  /\ registrationStep' = 2
  /\ registerCalls' = registerCalls + 1
  /\ submittedScore' = capturedScore
  /\ regPc' = "awaitRegister"
  /\ UNCHANGED <<cameraRef, regIsRegistering, registrationSuccess,
                 isFaceCentered, errorMessage, qualityScore, checkedScore,
                 qualityPass, regAlert, capturedScore, consentAtStart,
                 consentVars,
                 scoreVars>>

\* registerFace returned: on success step 3, the success flag and the
\* alert; otherwise nothing; finally clears isRegistering.
RegistrationAnswered ==
  /\ regPc = "awaitRegister"
  /\ \E resp \in RespKinds :
       /\ IF registerFaceReturn(resp)
          THEN /\ registrationStep' = 3
               /\ registrationSuccess' = TRUE
               /\ regAlert' = "success"
          ELSE UNCHANGED <<registrationStep, registrationSuccess, regAlert>>
       /\ regIsRegistering' = registeringAfter(registerFaceReturn(resp))
  /\ regPc' = "idle"
  /\ UNCHANGED <<cameraRef, isFaceCentered, errorMessage, qualityScore,
                 checkedScore, qualityPass, registerCalls, capturedScore,
                 submittedScore, consentAtStart, consentVars,
                 scoreVars>>

\* The button of the open Alert (OK / Try Again): resetRegistration.
AlertPressed ==
  /\ regAlert # "none"
  /\ regAlert' = "none"
  /\ resetRegistration
  /\ UNCHANGED <<cameraRef, isFaceCentered, checkedScore, qualityPass, regPc,
                 registerCalls, capturedScore, submittedScore,
                 consentAtStart, consentVars,
                 scoreVars>>

\* ------------------------------------------------- PrivacyDashboardScreen
\* loadPrivacySettings: the screen's copy becomes the store's value; a
\* failed GET leaves it null.
LoadPrivacySettings ==
  /\ settings = Null
  /\ \E getOk \in BOOLEAN : settings' = IF getOk THEN consents ELSE settings
  /\ UNCHANGED <<regVars, scoreVars, consents, saving, pendingConsent>>

\* updateConsent("facial_data", value) up to the PUT.  The switch exists
\* only for categories the loaded settings hold.
UpdateConsent ==
  /\ settings \notin {Null, "absent"}
  /\ ~saving
  /\ \E value \in {"granted", "denied"} : pendingConsent' = value
  /\ saving' = TRUE
  /\ UNCHANGED <<regVars, scoreVars, consents, settings>>

\* The PUT answered: on success the store and the copy hold the value.
ConsentSaved ==
  /\ saving
  /\ \E putOk \in BOOLEAN :
       IF putOk
       THEN consents' = pendingConsent /\ settings' = pendingConsent
       ELSE UNCHANGED <<consents, settings>>
  /\ pendingConsent' = Null
  /\ saving' = FALSE
  /\ UNCHANGED <<regVars, scoreVars>>

InitReg ==
  /\ cameraRef = FALSE
  /\ regIsRegistering = FALSE
  /\ registrationSuccess = FALSE
  /\ isFaceCentered = FALSE
  /\ registrationStep = 0
  /\ errorMessage = Null
  /\ qualityScore = 0
  /\ checkedScore = -1
  /\ qualityPass = FALSE
  /\ regPc = "idle"
  /\ regAlert = "none"
  /\ registerCalls = 0
  /\ capturedScore = -1
  /\ submittedScore = -1
  /\ consentAtStart = Null
  /\ lastFace \in {FaceOff, NoFace}
  /\ checkedCentered = FALSE
  /\ frameSize \in FrameSizes
  /\ consents \in {"absent", "granted", "denied"}
  /\ settings = Null
  /\ saving = FALSE
  /\ pendingConsent = Null

NextReg ==
  \/ CameraMounted
  \/ FaceDetected
  \/ NoFaceDetected
  \/ TakePicture
  \/ PictureFailed
  \/ PictureTaken
  \/ RegistrationAnswered
  \/ AlertPressed
  \/ LoadPrivacySettings
  \/ UpdateConsent
  \/ ConsentSaved

\* ---------------------------------------------------- KrishAI (web client)
VARIABLES
  kIsAuthenticated,   \* KrishAI.isAuthenticated
  authToken,          \* KrishAI.authToken: Null, Undefined or a token
  captureOnclick,     \* onclick of #capture-face: "none", "register", "verify"
  starting,           \* start handlers awaiting startCamera
  containerHidden,    \* #face-auth-container carries the class hidden
  cameraOn,           \* video.srcObject is a live stream
  pending,            \* requests in flight, per endpoint
  isListening,        \* KrishAI.isListening
  notification,       \* last showNotification
  aborted             \* Close was clicked on the requests now in flight

webVars == <<kIsAuthenticated, authToken, captureOnclick, starting,
             containerHidden, cameraOn, pending, isListening, notification,
             aborted>>

Modes == {"register", "verify"}

InFlight == pending["register"] + pending["verify"]

\* Click on Register Face / Verify Face in the navigation bar:
\* startFaceRegistration / startFaceVerification up to the await of
\* startCamera.  updateAuthUI hides the register button once authenticated.
StartClicked ==
  /\ \E mode \in Modes :
       /\ mode = "register" => ~kIsAuthenticated
       /\ mode \notin starting
       /\ starting' = starting \cup {mode}
  /\ UNCHANGED <<kIsAuthenticated, authToken, captureOnclick, containerHidden,
                 cameraOn, pending, isListening, notification, aborted>>

\* startCamera settled (it catches its own error): the start handler sets
\* the onclick of the Capture button, whatever startCamera did.
CameraStarted ==
  /\ \E mode \in starting, camOk \in BOOLEAN :
       /\ starting' = starting \ {mode}
       /\ captureOnclick' = mode
       /\ IF camOk
          THEN /\ cameraOn' = TRUE
               /\ containerHidden' = FALSE
               /\ UNCHANGED notification
          ELSE /\ notification' = "camera-error"
               /\ UNCHANGED <<cameraOn, containerHidden>>
  /\ UNCHANGED <<kIsAuthenticated, authToken, pending, isListening, aborted>>

\* Click on Capture (inside the container): the onclick handler captures
\* the frame and calls registerFace or verifyFace, which sends the request.
\* Nothing records that a request is already in flight.
CaptureClicked ==
  /\ ~containerHidden
  /\ captureOnclick \in Modes
  /\ InFlight < MaxInFlight
  /\ pending' = [pending EXCEPT ![captureOnclick] = @ + 1]
  /\ aborted' = FALSE
  /\ UNCHANGED <<kIsAuthenticated, authToken, captureOnclick, starting,
                 containerHidden, cameraOn, isListening, notification>>

\* Click on Close: stopCamera and hide the container.  The requests in
\* flight are left as they are.
CloseClicked ==
  /\ ~containerHidden
  /\ cameraOn' = FALSE
  /\ containerHidden' = TRUE
  /\ aborted' = (InFlight > 0)
  /\ UNCHANGED <<kIsAuthenticated, authToken, captureOnclick, starting,
                 pending, isListening, notification>>

\* KrishAI.verifyFace: the test it makes before it sets isAuthenticated.
webVerifyAccepts(resp) == resp \in {"notoken", "ok"}

\* KrishAI.verifyFace: authToken = result.access_token.
webToken(resp, tok) == IF resp = "ok" THEN tok ELSE Undefined

\* The answer to a register request reaches KrishAI.registerFace.
WebRegisterAnswered ==
  /\ pending["register"] > 0
  /\ pending' = [pending EXCEPT !["register"] = @ - 1]
  /\ aborted' = (aborted /\ InFlight > 1)
  /\ \E resp \in RespKinds :
       IF resp \in {"notoken", "ok"}
       THEN /\ notification' = "registered"
            /\ cameraOn' = FALSE
            /\ containerHidden' = TRUE
       ELSE /\ notification' = IF resp = "transport"
                               THEN "register-failed" ELSE "result.error"
            /\ UNCHANGED <<cameraOn, containerHidden>>
  /\ UNCHANGED <<kIsAuthenticated, authToken, captureOnclick, starting,
                 isListening>>

\* The answer to a verify request reaches KrishAI.verifyFace.
WebVerifyAnswered ==
  /\ pending["verify"] > 0
  /\ pending' = [pending EXCEPT !["verify"] = @ - 1]
  /\ aborted' = (aborted /\ InFlight > 1)
  /\ \E resp \in RespKinds, tok \in Tokens :
       IF webVerifyAccepts(resp)
       THEN /\ kIsAuthenticated' = TRUE
            /\ authToken' = webToken(resp, tok)
            /\ notification' = "verified"
            /\ cameraOn' = FALSE
            /\ containerHidden' = TRUE
       ELSE /\ notification' = IF resp = "transport"
                               THEN "verify-failed" ELSE "result.error"
            /\ UNCHANGED <<kIsAuthenticated, authToken, cameraOn,
                           containerHidden>>
  /\ UNCHANGED <<captureOnclick, starting, isListening>>

\* Variant of VoiceClicked: the handler does not look at isAuthenticated.
VoiceClickedNoCheck ==
  /\ isListening' = ~isListening
  /\ UNCHANGED notification
  /\ UNCHANGED <<kIsAuthenticated, authToken, captureOnclick, starting,
                 containerHidden, cameraOn, pending, aborted>>

\* Click on the voice trigger.
VoiceClicked ==
  /\ IF ~kIsAuthenticated
     THEN notification' = "verify-first" /\ UNCHANGED isListening
     ELSE isListening' = ~isListening /\ UNCHANGED notification
  /\ UNCHANGED <<kIsAuthenticated, authToken, captureOnclick, starting,
                 containerHidden, cameraOn, pending, aborted>>

InitWeb ==
  /\ kIsAuthenticated = FALSE
  /\ authToken = Null
  /\ captureOnclick = "none"
  /\ starting = {}
  /\ containerHidden = TRUE
  /\ cameraOn = FALSE
  /\ pending = [m \in Modes |-> 0]
  /\ isListening = FALSE
  /\ notification = "none"
  /\ aborted = FALSE

NextWeb ==
  \/ StartClicked
  \/ CameraStarted
  \/ CaptureClicked
  \/ CloseClicked
  \/ WebRegisterAnswered
  \/ WebVerifyAnswered
  \/ VoiceClicked

vars == <<authVars, regVars, consentVars, scoreVars, webVars>>

\* Outside the specification of the scorer the faces are not recorded and
\* the frame is the reference frame.
NoFaceRecord == lastFace = FaceOff /\ frameSize = RefFrame
NoStoreRecord == lastStore = StoreOff

\* AuthProvider with AuthScreen.
Init ==
  /\ InitAuth /\ InitReg /\ InitWeb /\ consents = "absent"
  /\ NoFaceRecord /\ NoStoreRecord
Next == NextAuth /\ UNCHANGED <<regVars, consentVars, scoreVars, webVars>>
Spec == Init /\ [][Next]_vars

\* FaceRegistrationScreen with the consent switches.
NextRegOnly == NextReg /\ UNCHANGED <<authVars, webVars>>
InitRegOnly ==
  /\ InitAuth /\ InitReg /\ InitWeb /\ NoFaceRecord /\ NoStoreRecord
  /\ storage = [token |-> Null, userId |-> Null]
SpecReg == InitRegOnly /\ [][NextRegOnly]_vars

\* KrishAI.
InitWebOnly == InitRegOnly /\ consents = "absent"
NextWebOnly ==
  NextWeb /\ UNCHANGED <<authVars, regVars, consentVars, scoreVars>>
SpecWeb == InitWebOnly /\ [][NextWebOnly]_vars

\* The scorer of FaceRegistrationScreen: the detection events alone, with
\* the face of each event recorded, on either frame.
InitScoreOnly ==
  /\ InitAuth /\ InitReg /\ InitWeb /\ lastFace = NoFace /\ NoStoreRecord
  /\ storage = [token |-> Null, userId |-> Null]
  /\ consents = "absent"
NextScore ==
  \/ CameraMounted
  \/ FaceDetected
  \/ NoFaceDetected
NextScoreOnly == NextScore /\ UNCHANGED <<authVars, webVars>>
SpecScore == InitScoreOnly /\ [][NextScoreOnly]_vars

\* AuthProvider with the verification flow of AuthScreen, the login and
\* logout calls recorded.
InitStoreOnly ==
  /\ InitAuth /\ InitReg /\ InitWeb /\ consents = "absent"
  /\ NoFaceRecord /\ lastStore = NoStore
NextStore ==
  \/ InitializeApp
  \/ ~appIsLoading /\ LoadRead
  \/ ~appIsLoading /\ LoadVerified
  \/ ~appIsLoading /\ Logout
  \/ ~appIsLoading /\ PressCapture
  \/ ~appIsLoading /\ CaptureDone
  \/ ~appIsLoading /\ VerifyAnswered
  \/ ~appIsLoading /\ LoginDone
NextStoreOnly ==
  NextStore /\ UNCHANGED <<regVars, consentVars, scoreVars, webVars>>
SpecStore == InitStoreOnly /\ [][NextStoreOnly]_vars

\* The three programs, one of them running: the App with AuthProvider,
\* AuthScreen and HomeScreen, FaceRegistrationScreen with the consent
\* switches, or the KrishAI web client.
InitApps == InitAuth /\ InitReg /\ InitWeb /\ NoFaceRecord /\ NoStoreRecord
AuthAtInit == InitAuth /\ storage = [token |-> Null, userId |-> Null]
RegAtInit == InitReg /\ consents = "absent"
NextApps ==
  \/ /\ RegAtInit /\ InitWeb
     /\ NextAuth \/ NextHome
     /\ UNCHANGED <<regVars, consentVars, scoreVars, webVars>>
  \/ /\ AuthAtInit /\ InitWeb
     /\ NextReg
     /\ UNCHANGED <<authVars, webVars>>
  \/ /\ AuthAtInit /\ RegAtInit
     /\ NextWeb
     /\ UNCHANGED <<authVars, regVars, consentVars, scoreVars>>
SpecApps == InitApps /\ [][NextApps]_vars

\* ------------------------------------------------------------------ claims

\* C1: a frame whose composite quality score is below 0.7 is never sent to
\* the Matcher: every register request carries a score of at least 0.7.
C1_LowQualityNeverSubmitted ==
  submittedScore = -1 \/ submittedScore >= passThreshold

\* C2: after maxRetries verification attempts that ended in no-match, no
\* further verify request is sent (the next submission is rejected).
C2_NoCallAfterExhausted ==
  [][failedAttempts >= maxRetries => verifyCalls' = verifyCalls]_vars

\* C3: the number of failed attempts never decreases and never exceeds
\* maxRetries.
C3_AttemptsBounded ==
  [][/\ failedAttempts' >= failedAttempts
     /\ failedAttempts' <= maxRetries]_vars

\* C4: the client is authenticated exactly when it holds a defined access
\* token.
C4_TokenIffAccepted == kIsAuthenticated <=> authToken \in Tokens

\* C5: a capture in progress was started with the facial_data consent
\* granted; without it no frame is captured or sent to the Matcher.
C5_NoCaptureWithoutConsent ==
  regPc \in {"capturing", "awaitRegister"} => consentAtStart = "granted"

\* C6: what the caller is told after a transport failure differs from what
\* it is told after a definitive no-match.
C6_TransportDistinct ==
  (outcomeSeen["transport"] # NoOutcome /\ outcomeSeen["nomatch"] # NoOutcome)
    => outcomeSeen["transport"] # outcomeSeen["nomatch"]

C8_OneInFlight == InFlight <= 1

\* C9 (as claimed): once the enrollment is accepted (registrationSuccess) it
\* stays accepted.
C9_TerminalFinal == [][registrationSuccess => registrationSuccess']_vars

\* C9 (amended): an accepted enrollment (registrationSuccess, step 3) is left
\* only by the button of the result alert, which runs resetRegistration; no
\* detection event, capture or Matcher answer changes it.
C9_ResetOnlyByAlert ==
  [][(registrationSuccess
        /\ (~registrationSuccess' \/ registrationStep' # 3))
      => (regAlert = "success" /\ regAlert' = "none")]_vars

\* C9 witness: the enrollment is accepted with its alert open, and a
\* detection event without a face has since cleared the centered flag and
\* the score, leaving the acceptance in place.
C9_Witness ==
  /\ registrationSuccess
  /\ registrationStep = 3
  /\ regAlert = "success"
  /\ ~isFaceCentered
  /\ qualityScore = 0

C11_ScoreBoundsIncluded ==
  lastFace \in Faces =>
    /\ checkedScore =
         (IF /\ lastFace.width >= 100 /\ lastFace.width <= 240
             /\ lastFace.height >= 100 /\ lastFace.height <= 240
          THEN 4 ELSE 0)
         + (IF checkedCentered THEN 3 ELSE 0) + 3
    /\ checkedScore \in 0..10

\* C11 (amended): the size term is earned only strictly inside the range,
\* 100 < width < 240 and 100 < height < 240; the centering term is the
\* isFaceCentered flag checkFaceQuality reads; the score lies in [0, 1].
C11_ScoreBoundsExcluded ==
  lastFace \in Faces =>
    /\ checkedScore =
         (IF /\ lastFace.width > 100 /\ lastFace.width < 240
             /\ lastFace.height > 100 /\ lastFace.height < 240
          THEN 4 ELSE 0)
         + (IF checkedCentered THEN 3 ELSE 0) + 3
    /\ checkedScore \in 0..10

\* C11 witness: a box of width exactly 100 with the flag set scored 0.6.
C11_Witness ==
  /\ lastFace \in Faces
  /\ lastFace.width = 100
  /\ lastFace.height = 101
  /\ checkedCentered
  /\ checkedScore = 6

\* C12 (as claimed): a face box of zero area scores 0.
C12_ZeroAreaScoresZero ==
  (lastFace \in Faces /\ (lastFace.width = 0 \/ lastFace.height = 0))
    => checkedScore = 0

\* C12 (amended): a face box of zero area never earns the size term: it
\* scores 0.3, or 0.6 when the centered flag is set, and does not pass.
C12_ZeroAreaNoSizeTerm ==
  (lastFace \in Faces /\ (lastFace.width = 0 \/ lastFace.height = 0))
    => /\ checkedScore = (IF checkedCentered THEN 6 ELSE 3)
       /\ ~qualityPass

\* C12 witness: a box of zero width and height scored 0.6.
C12_Witness ==
  /\ lastFace \in Faces
  /\ lastFace.width = 0
  /\ lastFace.height = 0
  /\ checkedScore = 6

\* C13 (as claimed): the face is centered exactly when its centroid lies in
\* the central rectangle scaled to the frame: the rectangle of the
\* reference frame, multiplied by frame size over reference size.
C13_CenteredProportional ==
  lastFace \in Faces =>
    (isFaceCentered <=>
       /\ (2 * lastFace.x + lastFace.width) * RefFrame.width
            > 2 * 160 * frameSize.width
       /\ (2 * lastFace.x + lastFace.width) * RefFrame.width
            < 2 * 240 * frameSize.width
       /\ (2 * lastFace.y + lastFace.height) * RefFrame.height
            > 2 * 260 * frameSize.height
       /\ (2 * lastFace.y + lastFace.height) * RefFrame.height
            < 2 * 340 * frameSize.height)

\* C13 (amended): the face is centered exactly when its centroid lies
\* strictly inside the fixed rectangle 160 < x < 240, 260 < y < 340, on every
\* frame size; the result depends on the face box alone.
C13_CenteredFixed ==
  lastFace \in Faces =>
    (isFaceCentered <=>
       /\ 2 * lastFace.x + lastFace.width \in 321..479
       /\ 2 * lastFace.y + lastFace.height \in 521..679)

\* C13 witness: on the larger frame a face whose centroid is in the fixed
\* rectangle is centered, and one on its left edge is not.
C13_Witness ==
  /\ frameSize # RefFrame
  /\ lastFace \in Faces
  /\ isFaceCentered
  /\ 2 * lastFace.x + lastFace.width = 321

\* C14: login (the storage of the token) runs exactly once in a verification
\* that is accepted and never more than once per press of the button:
\* verifyFace returns true exactly when its one login call completed, the
\* state then holds the stored token, and a verification that is not
\* accepted stores nothing.
C14_TokenOncePerAccept ==
  [][/\ (lastLogin' # lastLogin /\ lastLogin' # "none")
          => (lastLogin = "none" /\ authPc = "awaitLogin" /\ lastResp = "ok")
     /\ (storage'.token # storage.token /\ storage'.token \in Tokens)
          => (authPc = "awaitLogin" /\ lastLogin = "none")
     /\ (authPc = "awaitLogin" /\ authPc' = "idle")
          => /\ lastLogin = "none"
             /\ lastLogin' \in {"done", "failed"}
             /\ lastReturn' = "true" <=> lastLogin' = "done"
             /\ lastLogin' = "done"
                  => /\ state'.isAuthenticated
                     /\ state'.token \in Tokens
                     /\ state'.token = storage'.token
     /\ (authPc = "awaitVerify" /\ authPc' = "idle")
          => /\ lastReturn' = "false"
             /\ lastLogin' = "none"
             /\ storage' = storage
             /\ state' = state]_vars

\* C14 witness: the second verification of the run was accepted, its login
\* completed, and the state holds the stored token.
C14_Witness ==
  /\ verifyCalls = 2
  /\ authPc = "idle"
  /\ lastLogin = "done"
  /\ lastReturn = "true"
  /\ state.token \in Tokens
  /\ state.token = storage.token

\* C15: once the lifetime of the token has elapsed the client is not
\* authenticated: no authenticated state is granted or kept.
C15_NoAuthAfterExpiry == expired => ~state.isAuthenticated

C16_AbortCancels ==
  [][(aborted /\ InFlight' < InFlight)
      => (kIsAuthenticated' = kIsAuthenticated /\ authToken' = authToken)]_vars

\* C17: once the facial_data consent granted when the capture began is
\* revoked in the store, the capture in progress sends no register request.
C17_RevokedStopsSession ==
  [][(consentAtStart = "granted" /\ consents = "denied")
      => registerCalls' = registerCalls]_vars

\* C18: the only session with a Matcher request in flight is the one bound
\* to the Capture button: starting another session ends the prior one.
C18_OneActiveSession ==
  \A m \in Modes : pending[m] > 0 => captureOnclick = m

\* C21: after every detection event with a face, the centering term of the
\* score computed for that frame is the centering of that same frame: the
\* flag checkFaceQuality read equals the centering of the face scored, and
\* the displayed score is the score of that face with the displayed flag.
C21_ScoreOfSameFrame ==
  lastFace \in Faces =>
    /\ checkedCentered = faceCentered(lastFace)
    /\ qualityScore = faceScore(lastFace, isFaceCentered)

\* C22: every enrollment attempt that reached the Matcher ends with a
\* reported outcome: success (step 3 and registrationSuccess) or a failure
\* shown to the user (errorMessage set or the error alert open).
C22_OutcomeReported ==
  [][(regPc = "awaitRegister" /\ regPc' = "idle")
      => \/ (registrationStep' = 3 /\ registrationSuccess')
         \/ errorMessage' # Null
         \/ regAlert' = "error"]_vars

\* C23: in every state of the AuthProvider, isAuthenticated is true exactly
\* when token and userId are both non-null.
C23_AuthIffTokenAndUser ==
  state.isAuthenticated <=> (state.token # Null /\ state.userId # Null)

\* C23 witness: a login by verifyFace with no userId in state left the
\* client authenticated with a token and the empty string as userId.
C23_Witness ==
  /\ state.isAuthenticated
  /\ state.token \in Tokens
  /\ state.userId = EmptyId
  /\ lastLogin = "done"

\* C24: once login has set isAuthenticated it stays set through every step
\* of loadAuthState: a completed login is not undone by the load started at
\* mount.
C24_LoginNotUndoneByLoad ==
  [][(lastLogin = "done" /\ state.isAuthenticated /\ loadPc' # loadPc)
      => state'.isAuthenticated]_vars

\* C26: the persisted token and the persisted userId are both present or
\* both absent.
C26_StoredBothOrNeither ==
  (storage.token = Null) <=> (storage.userId = Null)

\* C25: once the App and the provider have loaded and no handler runs, the
\* App-level isAuthenticated agrees with the provider's.
C25_AppAgreesWithProvider ==
  (~appIsLoading /\ loadPc = "done" /\ authPc = "idle")
    => (appIsAuthenticated <=> state.isAuthenticated)

\* C27: a login or logout call in which a storage operation failed threw
\* and left the in-memory auth state as it was.
C27_FailedStoreKeepsState ==
  lastStore.failed => (lastStore.threw /\ lastStore.kept)

\* C27 witness: a logout removed the token, failed on the userId and threw;
\* the client is still authenticated.
C27_Witness ==
  /\ lastStore.op = "logout"
  /\ lastStore.failed
  /\ lastStore.threw
  /\ state.isAuthenticated
  /\ storage.token = Null
  /\ storage.userId # Null

C29_FlagCleared ==
  /\ authPc = "idle" => ~isProcessing
  /\ regPc = "idle" => ~regIsRegistering

\* C29 witness: takePicture reached the Matcher, was rejected and ended at
\* step 2 with isRegistering cleared.
C29_Witness ==
  /\ regPc = "idle"
  /\ registerCalls = 1
  /\ registrationStep = 2
  /\ ~registrationSuccess
  /\ ~regIsRegistering

\* C30: listening starts only while the client is authenticated, in the web
\* client (voice trigger) and in HomeScreen (mic button).
C30_ListenOnlyAuthenticated ==
  [][/\ (isListening' /\ ~isListening) => kIsAuthenticated
     /\ (homeIsListening' /\ ~homeIsListening) => state.isAuthenticated]_vars

\* C30 witness: the verification succeeded and a click on the voice trigger
\* then started listening.
C30_Witness ==
  /\ notification = "verified"
  /\ kIsAuthenticated
  /\ isListening

====
